---- MODULE Spec2Model ----
(***************************************************************************)
(* College voice assistant, frontend/script.js: the chat widget's event    *)
(* handlers as a state machine.  One action per handler or callback; each   *)
(* runs to completion (single-threaded event loop).  The browser and the    *)
(* backend are the environment: they deliver recognition events, timer      *)
(* expiries and HTTP responses in any order the platform allows.            *)
(*                                                                         *)
(* Strings are sequences of chunks (one-character strings for user text,    *)
(* whole literals for the program's fixed messages), so that trim, split,   *)
(* substring and template concatenation are computed, not assumed.          *)
(***************************************************************************)
EXTENDS Integers, Sequences, FiniteSets, TLC

VARIABLES
    loaded,            \* DOMContentLoaded has fired
    events,            \* number of user events so far (bounded by MaxEvents)
    hasTTS,            \* 'speechSynthesis' in window
    hasRecognition,    \* 'webkitSpeechRecognition' in window
    currentLanguage,   \* script.js:3
    isRecording,       \* script.js:4
    recognition,       \* script.js:7  (created: an object exists; lang: its locale)
    voiceBtn,          \* [disabled, listening] of the voice button
    voiceStatus,       \* voiceStatus.style.display
    messageInput,      \* messageInput.value
    placeholder,       \* messageInput.placeholder
    chatMessages,      \* children of #chatMessages, in DOM order
    logsContainer,     \* children of #logsContainer, in DOM order
    console,           \* console.error / warn / log calls
    reqs,              \* every fetch() issued, in issue order
    timers,            \* pending setTimeout(sendMessage, 500) callbacks
    recState,          \* the browser's SpeechRecognition session state
    startCalls,        \* history: recognition.start() calls: the session state met, the locale
    stopCalls,         \* history: number of recognition.stop() calls
    uncaught,          \* history: exceptions that left a handler uncaught
    fired,             \* history: transcripts whose 500 ms timer has fired
    ttsCalls,          \* speechSynthesis.speak() calls
    audioPlays,        \* responseAudio.play() calls (the src played)
    documentsList,     \* children of #documentsList
    form,              \* the add-document form's three fields
    activeTab,         \* the admin tab shown
    adminModal,        \* adminModal.style.display
    alerts,            \* history: number of alert() calls
    listedBy,          \* history: the request whose response rendered the list
    submitted,         \* history: the form's fields at each submit event
    sendCalls,         \* history: messageInput.value at each sendMessage() call
    mediaRecorder,     \* script.js:5 ("none", "recording" or "inactive")
    audioChunks        \* script.js:6

vars == <<loaded, events, hasTTS, hasRecognition, currentLanguage, isRecording,
          recognition, voiceBtn, voiceStatus, messageInput, placeholder, chatMessages,
          logsContainer, console, reqs, timers, recState, startCalls, stopCalls,
          uncaught, fired, ttsCalls, audioPlays, documentsList, form, activeTab,
          adminModal, alerts, listedBy, submitted, sendCalls, mediaRecorder,
          audioChunks>>

env       == <<hasTTS, hasRecognition>>
chatVars  == <<currentLanguage, messageInput, placeholder, sendCalls>>
voiceVars == <<isRecording, recognition, voiceBtn, voiceStatus, timers, recState,
               startCalls, stopCalls, fired>>
adminVars == <<documentsList, form, activeTab, adminModal, alerts, listedBy,
               submitted>>
captureVars == <<mediaRecorder, audioChunks>>
outVars   == <<ttsCalls, audioPlays>>

-----------------------------------------------------------------------------
(* Bounds *)

MaxEvents == 3
MaxPending == 2

-----------------------------------------------------------------------------
(* Strings *)

Whitespace == {" "}

\* The chunk "U+0D2E" stands for the one character with that code point
\* (MALAYALAM LETTER MA), "U+0D80" for the first code point after the block;
\* every other chunk is ASCII text.
codePointAt(c) ==
    CASE c = "U+0D2E" -> 3374
      [] c = "U+0D80" -> 3456
      [] c = "U+2705" -> 9989
      [] c = "U+274C" -> 10060
      [] c = " " -> 32
      [] OTHER -> 97

MalayalamFirst == 3328
MalayalamLast == 3455

RECURSIVE trimStart(_)
trimStart(s) ==
    IF s # <<>> /\ Head(s) \in Whitespace THEN trimStart(Tail(s)) ELSE s

RECURSIVE trimEnd(_)
trimEnd(s) ==
    IF s # <<>> /\ s[Len(s)] \in Whitespace
    THEN trimEnd(SubSeq(s, 1, Len(s) - 1))
    ELSE s

\* String.prototype.trim
trim(s) == trimEnd(trimStart(s))

LogPrefixLen == 50

\* String.prototype.substring(0, n)
substring(s, n) == SubSeq(s, 1, IF Len(s) < n THEN Len(s) ELSE n)

\* (mutant) a character class that reaches one code point past the block
matchMalayalam_OnePast(s) ==
    \E i \in 1..Len(s) : codePointAt(s[i]) \in MalayalamFirst..(MalayalamLast + 1)

\* text.match(/[\u0D00-\u0D7F]/) is non-null
matchMalayalam(s) ==
    \E i \in 1..Len(s) : codePointAt(s[i]) \in MalayalamFirst..MalayalamLast

\* A JavaScript value read from a JSON body: t is its type, v its String()
\* conversion (what a template literal or innerHTML shows).
Str(s)    == [t |-> "string", v |-> s]
Undefined == [t |-> "undefined", v |-> <<"undefined">>]
Num(s)    == [t |-> "number", v |-> s]

-----------------------------------------------------------------------------
(* Conversation log and system log *)

\* (mutant) addMessage that inserts the element before the first child
addMessage_Prepends(chat, sender, text, by) ==
    LET el == [sender |-> sender, text |-> text.v, by |-> by,
               malayalam |-> text.t = "string" /\ matchMalayalam(text.v)]
    IN  [chat |-> <<el>> \o chat, threw |-> text.t # "string"]

\* addMessage(sender, text): the element is appended (line 102) before
\* text.match is evaluated (line 106), so a text that is no string leaves its
\* element in the log and throws a TypeError.  by is the request on whose
\* behalf the call is made (0: none); it is history, not DOM state.
addMessage(chat, sender, text, by) ==
    LET el == [sender |-> sender, text |-> text.v, by |-> by,
               malayalam |-> text.t = "string" /\ matchMalayalam(text.v)]
    IN  [chat |-> Append(chat, el), threw |-> text.t # "string"]

\* logToSystem(message, type)
logToSystem(logs, message, type, by) ==
    Append(logs, [type |-> type, text |-> message, by |-> by])

-----------------------------------------------------------------------------
(* Language selector *)

LangButtons == {"auto", "ml", "manglish"}

\* btn.textContent of the language buttons
LangLabel(l) ==
    CASE l = "ml" -> <<"U+0D2E">>
      [] l = "manglish" -> <<"Manglish">>
      [] OTHER -> <<"Auto">>

NoRecognition == [created |-> FALSE, lang |-> ""]

\* the switch of updateRecognitionLanguage
recognitionLang(language) ==
    CASE language = "ml" -> "ml-IN"
      [] language = "manglish" -> "en-IN"
      [] OTHER -> "en-US"

\* updateRecognitionLanguage(): the recognition object after the call
updateRecognitionLanguage(rec, language) ==
    IF ~rec.created THEN rec ELSE [rec EXCEPT !.lang = recognitionLang(language)]

\* the switch of the language click handler (which placeholder text is set)
placeholderOf(language) ==
    CASE language = "ml" -> "ml"
      [] language = "manglish" -> "manglish"
      [] OTHER -> "default"

\* (mutant) the switch of speakText without its manglish case
utteranceLang_NoManglish(language) ==
    CASE language = "ml" -> "ml-IN"
      [] OTHER -> "en-US"

\* the switch of speakText
utteranceLang(language) ==
    CASE language = "ml" -> "ml-IN"
      [] language = "manglish" -> "en-IN"
      [] OTHER -> "en-US"

\* speakText(text, language): the speak() calls after the call
speakText(calls, text, language) ==
    IF hasTTS
    THEN Append(calls, [text |-> text, lang |-> utteranceLang(language)])
    ELSE calls

-----------------------------------------------------------------------------
(* Requests and responses *)

Pending(op) == {i \in 1..Len(reqs) : reqs[i].op = op /\ reqs[i].st = "pending"}

\* request i is answered by r, and the async function that issued it
\* resolves to ret
settle(rs, i, r, ret) ==
    [rs EXCEPT ![i].st = "settled", ![i].resp = r, ![i].ret = ret]

\* fetch(): the request list after issuing one more request.  by is history:
\* the addDocument request whose success issued it (0: none).
fetch(rs, op, body, by) ==
    Append(rs, [op |-> op, body |-> body, by |-> by, st |-> "pending",
                resp |-> [kind |-> "none"], ret |-> "none"])

\* Error.message of what a failed request throws
FailedToFetch == <<"Failed to fetch">>
HttpError     == <<"HTTP error! status: ", "500">>
JsonError     == <<"Unexpected token < in JSON">>
MatchError    == <<"Cannot read properties of undefined (reading 'match')">>
ForEachError  == <<"Cannot read properties of undefined (reading 'forEach')">>

\* What the backend and the network can answer to POST /api/query:
\* a transport failure, a non-2xx status, a 2xx whose body is no JSON, and
\* 2xx JSON bodies {answer, language, audio_url?}.
QueryData(answer, language, audio_url) ==
    [kind |-> "json", answer |-> answer, language |-> language,
     audio_url |-> audio_url]

QueryFailure(kind) == [QueryData(Undefined, "", <<>>) EXCEPT !.kind = kind]

QueryResponses ==
    { QueryFailure("reject"), QueryFailure("status"), QueryFailure("unparsable"),
      QueryData(Str(<<"9", "-", "8">>), "en", <<>>),
      QueryData(Str(<<"U+0D2E">>), "ml", <<>>),
      QueryData(Str(<<"o", "k">>), "manglish", <<"/audio/1.mp3">>),
      QueryData(Str(<<"U+0D80">>), "manglish", <<>>),
      QueryData(Undefined, "en", <<>>) }

-----------------------------------------------------------------------------
(* Initial state: the script has run (lines 1-25, 297-417: globals set,    *)
(* listeners registered); DOMContentLoaded has not fired yet.               *)

Init ==
    /\ loaded = FALSE
    /\ events = 0
    /\ hasTTS \in BOOLEAN
    /\ hasRecognition \in BOOLEAN
    /\ currentLanguage = "auto"
    /\ isRecording = FALSE
    /\ recognition = NoRecognition
    /\ voiceBtn = [disabled |-> FALSE, listening |-> FALSE]
    /\ voiceStatus = "none"
    /\ messageInput = <<>>
    /\ placeholder = "default"
    /\ chatMessages = <<>>
    /\ logsContainer = <<>>
    /\ console = <<>>
    /\ reqs = <<>>
    /\ timers = <<>>
    /\ recState = [phase |-> "idle", errored |-> FALSE]
    /\ startCalls = <<>>
    /\ stopCalls = 0
    /\ uncaught = 0
    /\ fired = <<>>
    /\ ttsCalls = <<>>
    /\ audioPlays = <<>>
    /\ documentsList = <<>>
    /\ form = [english |-> <<>>, malayalam |-> <<>>, manglish |-> <<>>]
    /\ activeTab = "add-doc"
    /\ adminModal = "none"
    /\ alerts = 0
    /\ listedBy = 0
    /\ submitted = <<>>
    /\ sendCalls = <<>>
    /\ mediaRecorder = "none"
    /\ audioChunks = 0

\* a user event: the model stops taking them after MaxEvents.  Before
\* DOMContentLoaded only the handlers that read what it sets up (the
\* recognition object) are taken; the others commute with it.
UserEvent == /\ loaded
             /\ events < MaxEvents
             /\ events' = events + 1

EarlyUserEvent == /\ events < MaxEvents
                  /\ events' = events + 1

\* a user event that may issue a request: the model takes it while fewer
\* than MaxPending requests are awaiting their answer
InFlight == {i \in 1..Len(reqs) : reqs[i].st = "pending" /\ reqs[i].op # "probe"}

IssuingUserEvent == /\ UserEvent
                    /\ Cardinality(InFlight) < MaxPending

-----------------------------------------------------------------------------
(* Query *)

\* (mutant) sendMessage that sends the selected language as it is
sendMessage_RawLanguage(inp) ==
    LET text == trim(inp) IN
    /\ sendCalls' = Append(sendCalls, inp)
    /\ IF text = <<>>
       THEN /\ messageInput' = inp
            /\ UNCHANGED <<chatMessages, reqs>>
       ELSE /\ chatMessages' =
                   addMessage(chatMessages, "user", Str(text), Len(reqs) + 1).chat
            /\ messageInput' = <<>>
            /\ reqs' = fetch(reqs, "query",
                   [text |-> text, language |-> currentLanguage], 0)

\* (mutant) sendMessage that tests the input without trimming it
sendMessage_NoTrim(inp) ==
    LET text == trim(inp) IN
    /\ sendCalls' = Append(sendCalls, inp)
    /\ IF inp = <<>>
       THEN /\ messageInput' = inp
            /\ UNCHANGED <<chatMessages, reqs>>
       ELSE /\ chatMessages' =
                   addMessage(chatMessages, "user", Str(text), Len(reqs) + 1).chat
            /\ messageInput' = <<>>
            /\ reqs' = fetch(reqs, "query",
                   [text |-> text,
                    language |-> IF currentLanguage = "auto" THEN "null"
                                 ELSE currentLanguage], 0)

\* sendMessage() up to its first await, with inp the value messageInput
\* holds when it is called
sendMessage(inp) ==
    LET text == trim(inp) IN
    /\ sendCalls' = Append(sendCalls, inp)
    /\ IF text = <<>>
       THEN /\ messageInput' = inp
            /\ UNCHANGED <<chatMessages, reqs>>
       ELSE /\ chatMessages' =
                   addMessage(chatMessages, "user", Str(text), Len(reqs) + 1).chat
            /\ messageInput' = <<>>
            /\ reqs' = fetch(reqs, "query",
                   [text |-> text,
                    language |-> IF currentLanguage = "auto" THEN "null"
                                 ELSE currentLanguage], 0)

\* sendMessage's catch block (lines 153-157)
SorryText ==
    <<"Sorry, there was an error processing your request. Please try again.">>

\* (mutant) the catch block without its logToSystem call
sendMessageCatch_NoLog(chat, i, message) ==
    /\ console' = Append(console, <<"Error sending message:">> \o message)
    /\ chatMessages' = addMessage(chat, "bot", Str(SorryText), i).chat
    /\ UNCHANGED <<logsContainer, uncaught, outVars>>

sendMessageCatch(chat, i, message) ==
    LET bot == addMessage(chat, "bot", Str(SorryText), i) IN
    /\ console' = Append(console, <<"Error sending message:">> \o message)
    /\ chatMessages' = bot.chat
    /\ IF bot.threw
       THEN /\ uncaught' = uncaught + 1
            /\ UNCHANGED logsContainer
       ELSE /\ logsContainer' =
                   logToSystem(logsContainer, <<"Error: ">> \o message, "error", i)
            /\ UNCHANGED uncaught
    /\ UNCHANGED outVars

\* sendMessage() resumed with the response to request i (lines 132-151).
\* A non-2xx status throws before the body is read; response.json() rejects
\* on an unparsable body.  Nothing is done between the two awaits, so the
\* continuation is one step.
sendMessageResume(i, r) ==
    IF r.kind = "reject" THEN sendMessageCatch(chatMessages, i, FailedToFetch)
    ELSE IF r.kind = "status" THEN sendMessageCatch(chatMessages, i, HttpError)
    ELSE IF r.kind = "unparsable" THEN sendMessageCatch(chatMessages, i, JsonError)
    ELSE LET bot == addMessage(chatMessages, "bot", r.answer, i) IN
         IF bot.threw THEN sendMessageCatch(bot.chat, i, MatchError)
         ELSE /\ chatMessages' = bot.chat
              /\ IF r.audio_url # <<>>
                 THEN /\ audioPlays' = Append(audioPlays, r.audio_url)
                      /\ UNCHANGED ttsCalls
                 ELSE /\ ttsCalls' = speakText(ttsCalls, r.answer.v, r.language)
                      /\ UNCHANGED audioPlays
              /\ logsContainer' = logToSystem(logsContainer,
                     <<"User query: \"">> \o reqs[i].body.text
                        \o <<"\" -> Response: \"">>
                        \o substring(r.answer.v, LogPrefixLen) \o <<"...\"">>,
                     "info", i)
              /\ UNCHANGED <<console, uncaught>>

\* what the promise of an async function settles to: rejected when an
\* exception left it
settled(escaped) == IF escaped THEN "rejected" ELSE "undefined"

QueryResponse ==
    \E i \in Pending("query") : \E r \in QueryResponses :
        /\ sendMessageResume(i, r)
        /\ reqs' = settle(reqs, i, r, settled(uncaught' # uncaught))
        /\ UNCHANGED <<loaded, events, env, chatVars, voiceVars, adminVars,
                       captureVars>>

-----------------------------------------------------------------------------
(* Chat input handlers *)

InputTexts == { <<" ">>, <<" ", "U+0D2E", " ">> }
ExampleQuestions == { <<"q", "?">> }
Transcripts == { <<"t">> }
ErrorCodes == { "no-speech", "not-allowed" }

\* the user edits the message field
InputEdit ==
    \E v \in InputTexts :
        /\ UserEvent
        /\ messageInput' = v
        /\ UNCHANGED <<loaded, env, currentLanguage, placeholder, sendCalls, chatMessages,
                       logsContainer, console, reqs, voiceVars, adminVars,
                       captureVars, outVars, uncaught>>

sendRest == <<loaded, env, currentLanguage, placeholder, logsContainer, console,
              voiceVars, adminVars, captureVars, outVars, uncaught>>

\* sendBtn click (line 321)
SendClick ==
    /\ IssuingUserEvent
    /\ sendMessage(messageInput)
    /\ UNCHANGED sendRest

\* Enter without Shift in the message field (lines 324-329)
EnterKey ==
    /\ IssuingUserEvent
    /\ sendMessage(messageInput)
    /\ UNCHANGED sendRest

\* example button click (lines 335-340)
ExampleClick ==
    \E q \in ExampleQuestions :
        /\ IssuingUserEvent
        /\ sendMessage(q)
        /\ UNCHANGED sendRest

\* language button click (lines 297-318)
LangClick ==
    \E l \in LangButtons :
        /\ EarlyUserEvent
        /\ currentLanguage' = l
        /\ recognition' = updateRecognitionLanguage(recognition, l)
        /\ placeholder' = placeholderOf(l)
        /\ chatMessages' = addMessage(chatMessages, "system",
                Str(<<"Language set to: ">> \o LangLabel(l)), 0).chat
        /\ UNCHANGED <<loaded, env, isRecording, voiceBtn, voiceStatus,
                       messageInput, sendCalls, logsContainer, console, reqs, timers,
                       recState, startCalls, stopCalls, fired, adminVars,
                       captureVars, outVars, uncaught>>

-----------------------------------------------------------------------------
(* Voice input, recognition variant.  recState is the browser's side of    *)
(* the session: idle -> starting (start() accepted) -> listening (onstart) *)
(* -> ending (a result or an error was delivered) -> idle (onend);         *)
(* stop() while listening gives stopping, from which the browser may still *)
(* deliver one result.  start() on a session that is not idle throws       *)
(* InvalidStateError (Web Speech API).                                     *)

Active(phase) == phase # "idle"

\* toggleVoiceRecording() (lines 186-197)
toggleVoiceRecording ==
    IF ~recognition.created
    THEN /\ chatMessages' = addMessage(chatMessages, "system",
                Str(<<"Voice recognition is not supported in your browser.">>), 0).chat
         /\ UNCHANGED <<recState, startCalls, stopCalls, uncaught>>
    ELSE IF isRecording
    THEN /\ stopCalls' = stopCalls + 1
         /\ recState' = IF recState.phase = "listening"
                        THEN [recState EXCEPT !.phase = "stopping"]
                        ELSE recState
         /\ UNCHANGED <<chatMessages, startCalls, uncaught>>
    ELSE /\ startCalls' = Append(startCalls,
                [met |-> recState.phase, lang |-> recognition.lang,
                 language |-> currentLanguage])
         /\ IF Active(recState.phase)
            THEN /\ uncaught' = uncaught + 1
                 /\ UNCHANGED recState
            ELSE /\ recState' = [phase |-> "starting", errored |-> FALSE]
                 /\ UNCHANGED uncaught
         /\ UNCHANGED <<chatMessages, stopCalls>>

\* voiceBtn click (line 332); a disabled button delivers no click
VoiceClick ==
    /\ ~voiceBtn.disabled
    /\ EarlyUserEvent
    /\ toggleVoiceRecording
    /\ UNCHANGED <<loaded, env, chatVars, isRecording, recognition, voiceBtn,
                   voiceStatus, timers, fired, logsContainer, console, reqs,
                   adminVars, captureVars, outVars>>

\* recognition.onstart (lines 37-42)
OnStart ==
    /\ recState.phase = "starting"
    /\ recState' = [recState EXCEPT !.phase = "listening"]
    /\ isRecording' = TRUE
    /\ voiceBtn' = [voiceBtn EXCEPT !.listening = TRUE]
    /\ voiceStatus' = "flex"
    /\ chatMessages' = addMessage(chatMessages, "system",
            Str(<<"Listening... Speak now!">>), 0).chat
    /\ UNCHANGED <<loaded, events, env, chatVars, recognition, timers,
                   startCalls, stopCalls, fired, logsContainer, console, reqs,
                   adminVars, captureVars, outVars, uncaught>>

\* recognition.onresult (lines 44-50): one result per session (continuous = false)
OnResult ==
    \E t \in Transcripts :
        /\ recState.phase \in {"listening", "stopping"}
        /\ recState' = [recState EXCEPT !.phase = "ending"]
        /\ messageInput' = t
        /\ timers' = Append(timers, t)
        /\ UNCHANGED <<loaded, events, env, currentLanguage, placeholder, sendCalls,
                       isRecording, recognition, voiceBtn, voiceStatus, startCalls,
                       stopCalls, fired, chatMessages, logsContainer, console, reqs,
                       adminVars, captureVars, outVars, uncaught>>

\* recognition.onerror (lines 52-55)
OnError ==
    \E code \in ErrorCodes :
        /\ recState.phase \in {"starting", "listening", "stopping"}
        /\ recState' = [phase |-> "ending", errored |-> TRUE]
        /\ console' = Append(console, <<"Speech recognition error:", code>>)
        /\ chatMessages' = addMessage(chatMessages, "system",
                Str(<<"Speech recognition error: ", code>>), 0).chat
        /\ UNCHANGED <<loaded, events, env, chatVars, isRecording, recognition,
                       voiceBtn, voiceStatus, timers, startCalls, stopCalls, fired,
                       logsContainer, reqs, adminVars, captureVars, outVars,
                       uncaught>>

\* (mutant) onend that forgets to reset isRecording
OnEnd_KeepsRecording ==
    /\ recState.phase \in {"listening", "stopping", "ending"}
    /\ recState' = [recState EXCEPT !.phase = "idle"]
    /\ voiceBtn' = [voiceBtn EXCEPT !.listening = FALSE]
    /\ voiceStatus' = "none"
    /\ UNCHANGED <<loaded, events, env, chatVars, isRecording, recognition, timers,
                   startCalls, stopCalls, fired, chatMessages, logsContainer,
                   console, reqs, adminVars, captureVars, outVars, uncaught>>

\* recognition.onend (lines 57-61)
OnEnd ==
    /\ recState.phase \in {"listening", "stopping", "ending"}
    /\ recState' = [recState EXCEPT !.phase = "idle"]
    /\ isRecording' = FALSE
    /\ voiceBtn' = [voiceBtn EXCEPT !.listening = FALSE]
    /\ voiceStatus' = "none"
    /\ UNCHANGED <<loaded, events, env, chatVars, recognition, timers,
                   startCalls, stopCalls, fired, chatMessages, logsContainer,
                   console, reqs, adminVars, captureVars, outVars, uncaught>>

\* the 500 ms timer set by onresult expires: sendMessage() (line 49)
TimerFire ==
    /\ timers # <<>>
    /\ timers' = Tail(timers)
    /\ fired' = Append(fired, Head(timers))
    /\ sendMessage(messageInput)
    /\ UNCHANGED <<loaded, events, env, currentLanguage, placeholder,
                   isRecording, recognition, voiceBtn, voiceStatus, recState,
                   startCalls, stopCalls, logsContainer, console, adminVars,
                   captureVars, outVars, uncaught>>

-----------------------------------------------------------------------------
(* Admin panel: document list *)

\* String.prototype.split('|')
RECURSIVE split(_)
split(s) ==
    IF \A i \in 1..Len(s) : s[i] # "|"
    THEN <<s>>
    ELSE LET k == CHOOSE i \in 1..Len(s) :
                     s[i] = "|" /\ \A j \in 1..(i - 1) : s[j] # "|"
         IN  <<SubSeq(s, 1, k - 1)>> \o split(SubSeq(s, k + 1, Len(s)))

\* Number -> String, for the small numbers the model shows
numToStr(n) == <<"0", "1", "2", "3", "4", "5", "6", "7", "8", "9">>[n + 1]

\* one .document-item (lines 207-216): the numbered heading, the EN line
\* (always there), and the ML and Manglish lines when their part is non-empty
docDiv(doc, index) ==
    LET textParts == [k \in 1..Len(split(doc)) |-> trim(split(doc)[k])]
        part(k) == IF k <= Len(textParts) THEN textParts[k] ELSE <<>>
    IN  [title |-> <<"Document #", numToStr(index + 1)>>,
         en |-> part(1), ml |-> part(2), manglish |-> part(3)]

\* data.documents.forEach(...) (lines 206-219)
renderDocuments(documents) ==
    [k \in 1..Len(documents) |-> docDiv(documents[k], k - 1)]

Doc1 == <<"e", "n", "|", " ", "U+0D2E", " ", "|", "m", "g">>
Doc2 == <<"x">>

\* What can answer GET /api/documents.  loadDocuments never looks at the
\* status, so the body decides: no JSON, JSON without a documents array
\* (an error body), or {documents: [...]}.
ListData(kind, ok, documents) == [kind |-> kind, ok |-> ok, documents |-> documents]

ListResponses ==
    { ListData("reject", FALSE, <<>>),
      ListData("unparsable", TRUE, <<>>),
      ListData("nodocs", FALSE, <<>>),
      ListData("json", TRUE, <<Doc1>>),
      ListData("json", TRUE, <<Doc1, Doc2>>) }

\* loadDocuments() up to its first await (line 202)
loadDocuments(rs, by) == fetch(rs, "list", <<>>, by)

\* loadDocuments' catch block (lines 223-226)
loadDocumentsCatch(i, message) ==
    /\ console' = Append(console, <<"Error loading documents:">> \o message)
    /\ logsContainer' = logToSystem(logsContainer,
            <<"Error loading documents: ">> \o message, "error", i)

\* loadDocuments() resumed with the response to request i (lines 203-221)
loadDocumentsResume(i, r) ==
    IF r.kind = "reject"
    THEN loadDocumentsCatch(i, FailedToFetch) /\ UNCHANGED <<documentsList, listedBy>>
    ELSE IF r.kind = "unparsable"
    THEN loadDocumentsCatch(i, JsonError) /\ UNCHANGED <<documentsList, listedBy>>
    ELSE IF r.kind = "nodocs"
    THEN /\ documentsList' = <<>>
         /\ listedBy' = i
         /\ loadDocumentsCatch(i, ForEachError)
    ELSE /\ documentsList' = renderDocuments(r.documents)
         /\ listedBy' = i
         /\ logsContainer' = logToSystem(logsContainer,
                <<"Loaded ", numToStr(Len(r.documents)),
                  " documents from knowledge base">>, "info", i)
         /\ UNCHANGED console

ListResponse ==
    \E i \in Pending("list") : \E r \in ListResponses :
        /\ loadDocumentsResume(i, r)
        /\ reqs' = settle(reqs, i, r, "undefined")
        /\ UNCHANGED <<loaded, events, env, chatVars, voiceVars, chatMessages,
                       form, activeTab, adminModal, alerts, submitted, captureVars,
                       outVars, uncaught>>

-----------------------------------------------------------------------------
(* Admin panel: adding a document *)

FormData(english, malayalam, manglish) ==
    [english |-> english, malayalam |-> malayalam, manglish |-> manglish]

EmptyForm == FormData(<<>>, <<>>, <<>>)

\* what the user may have typed into the three fields
FormInputs ==
    { FormData(<<" ", "e">>, <<"U+0D2E", " ">>, <<"g">>),
      FormData(<<"e">>, <<>>, <<>>),
      FormData(<<" ">>, <<"U+0D2E">>, <<>>) }

AddData(kind, id) == [kind |-> kind, id |-> id]

\* What can answer POST /api/add-document
AddResponses ==
    { AddData("reject", Undefined), AddData("status", Undefined),
      AddData("unparsable", Undefined),
      AddData("json", Num(<<"7">>)), AddData("json", Undefined) }

\* the user fills in the add-document form
FormEdit ==
    \E f \in FormInputs :
        /\ UserEvent
        /\ form' = f
        /\ UNCHANGED <<loaded, env, chatVars, voiceVars, chatMessages,
                       logsContainer, console, reqs, documentsList, activeTab,
                       adminModal, alerts, listedBy, submitted, captureVars, outVars, uncaught>>

\* addDocument(english, malayalam, manglish) up to its first await
\* (lines 230-242)
addDocument(rs, english, malayalam, manglish) ==
    fetch(rs, "add",
          [english |-> english, malayalam |-> malayalam, manglish |-> manglish], 0)

\* (mutant) the submit handler validating the untrimmed fields
FormSubmit_NoTrim ==
    /\ IssuingUserEvent
    /\ submitted' = Append(submitted, form)
    /\ IF form.english = <<>> \/ form.malayalam = <<>>
       THEN /\ alerts' = alerts + 1
            /\ UNCHANGED reqs
       ELSE /\ reqs' = addDocument(reqs, trim(form.english), trim(form.malayalam),
                                   trim(form.manglish))
            /\ UNCHANGED alerts
    /\ UNCHANGED <<loaded, env, chatVars, voiceVars, chatMessages,
                   logsContainer, console, documentsList, form, activeTab,
                   adminModal, listedBy, captureVars, outVars, uncaught>>

\* the form's submit handler up to its await (lines 383-395)
FormSubmit ==
    LET english   == trim(form.english)
        malayalam == trim(form.malayalam)
        manglish  == trim(form.manglish)
    IN  /\ IssuingUserEvent
        /\ submitted' = Append(submitted, form)
        /\ IF english = <<>> \/ malayalam = <<>>
           THEN /\ alerts' = alerts + 1
                /\ UNCHANGED reqs
           ELSE /\ reqs' = addDocument(reqs, english, malayalam, manglish)
                /\ UNCHANGED alerts
        /\ UNCHANGED <<loaded, env, chatVars, voiceVars, chatMessages,
                       logsContainer, console, documentsList, form, activeTab,
                       adminModal, listedBy, captureVars, outVars, uncaught>>

\* (mutant) the submit handler resetting the form whatever addDocument returns
addDocumentCatch_Resets(i, r, message) ==
    /\ console' = Append(console, <<"Error adding document:">> \o message)
    /\ chatMessages' = addMessage(chatMessages, "system",
            Str(<<"U+274C", " Error adding document: ">> \o message), i).chat
    /\ logsContainer' = logToSystem(logsContainer,
            <<"Error adding document: ">> \o message, "error", i)
    /\ reqs' = settle(reqs, i, r, "false")
    /\ form' = EmptyForm

\* addDocument's catch block (lines 257-262), and the submit handler resumed
\* with false (lines 397-399): the form is left alone
addDocumentCatch(i, r, message) ==
    /\ console' = Append(console, <<"Error adding document:">> \o message)
    /\ chatMessages' = addMessage(chatMessages, "system",
            Str(<<"U+274C", " Error adding document: ">> \o message), i).chat
    /\ logsContainer' = logToSystem(logsContainer,
            <<"Error adding document: ">> \o message, "error", i)
    /\ reqs' = settle(reqs, i, r, "false")
    /\ UNCHANGED form

\* (mutant) addDocument without its loadDocuments() call
addDocumentResume_NoReload(i, r) ==
    IF r.kind = "reject" THEN addDocumentCatch(i, r, FailedToFetch)
    ELSE IF r.kind = "status" THEN addDocumentCatch(i, r, HttpError)
    ELSE IF r.kind = "unparsable" THEN addDocumentCatch(i, r, JsonError)
    ELSE /\ chatMessages' = addMessage(chatMessages, "system",
                Str(<<"U+2705", " Document added successfully! ID: ">> \o r.id.v),
                i).chat
         /\ logsContainer' = logToSystem(logsContainer,
                <<"Added new document: ">>
                    \o substring(reqs[i].body.english, LogPrefixLen) \o <<"...">>,
                "info", i)
         /\ reqs' = settle(reqs, i, r, "true")
         /\ form' = EmptyForm
         /\ UNCHANGED console

\* addDocument() resumed with the response to request i (lines 244-255), and
\* the submit handler resumed with true: addDocumentForm.reset()
addDocumentResume(i, r) ==
    IF r.kind = "reject" THEN addDocumentCatch(i, r, FailedToFetch)
    ELSE IF r.kind = "status" THEN addDocumentCatch(i, r, HttpError)
    ELSE IF r.kind = "unparsable" THEN addDocumentCatch(i, r, JsonError)
    ELSE /\ chatMessages' = addMessage(chatMessages, "system",
                Str(<<"U+2705", " Document added successfully! ID: ">> \o r.id.v),
                i).chat
         /\ logsContainer' = logToSystem(logsContainer,
                <<"Added new document: ">>
                    \o substring(reqs[i].body.english, LogPrefixLen) \o <<"...">>,
                "info", i)
         /\ reqs' = loadDocuments(settle(reqs, i, r, "true"), i)
         /\ form' = EmptyForm
         /\ UNCHANGED console

AddResponse ==
    \E i \in Pending("add") : \E r \in AddResponses :
        /\ addDocumentResume(i, r)
        /\ UNCHANGED <<loaded, events, env, chatVars, voiceVars, documentsList,
                       activeTab, adminModal, alerts, listedBy, submitted, captureVars,
                       outVars, uncaught>>

-----------------------------------------------------------------------------
(* Admin panel: tabs, modal, footer links *)

Tabs == {"add-doc", "view-docs"}

\* tab button click (lines 359-380)
tabClick(tabId) ==
    /\ activeTab' = tabId
    /\ reqs' = IF tabId = "view-docs" THEN loadDocuments(reqs, 0) ELSE reqs

TabClick ==
    \E tabId \in Tabs :
        /\ IssuingUserEvent
        /\ tabClick(tabId)
        /\ UNCHANGED <<loaded, env, chatVars, voiceVars, chatMessages,
                       logsContainer, console, documentsList, form, adminModal,
                       alerts, listedBy, submitted, captureVars, outVars, uncaught>>

modalRest == <<loaded, env, chatVars, voiceVars, chatMessages, logsContainer,
               console, reqs, documentsList, form, activeTab, alerts, listedBy, submitted,
               captureVars, outVars, uncaught>>

\* adminPanelBtn click (lines 343-345)
AdminPanelClick ==
    /\ UserEvent
    /\ adminModal' = "flex"
    /\ UNCHANGED modalRest

\* closeModal click (lines 347-349) and a click on the backdrop (lines 352-356)
CloseModalClick ==
    /\ UserEvent
    /\ adminModal' = "none"
    /\ UNCHANGED modalRest

\* docsLink click (lines 413-417): opens the modal and clicks the view-docs tab
DocsLinkClick ==
    /\ IssuingUserEvent
    /\ adminModal' = "flex"
    /\ tabClick("view-docs")
    /\ UNCHANGED <<loaded, env, chatVars, voiceVars, chatMessages,
                   logsContainer, console, documentsList, form, alerts, listedBy, submitted,
                   captureVars, outVars, uncaught>>

FooterTexts ==
    { <<"Privacy: All data is processed locally. Voice recordings are not stored.">>,
      <<"College Voice Assistant v1.0 - Powered by Google Gemini AI with RAG architecture. Supports Malayalam, English & Manglish.">> }

\* privacyLink and aboutLink clicks (lines 403-411)
FooterLinkClick ==
    \E text \in FooterTexts :
        /\ UserEvent
        /\ chatMessages' = addMessage(chatMessages, "system", Str(text), 0).chat
        /\ UNCHANGED <<loaded, env, chatVars, voiceVars, logsContainer,
                       console, reqs, adminVars, captureVars, outVars, uncaught>>

-----------------------------------------------------------------------------
(* Page load *)

\* (mutant) initSpeechRecognition without its updateRecognitionLanguage() call
initSpeechRecognition_NoUpdate ==
    IF hasRecognition
    THEN /\ recognition' = [created |-> TRUE, lang |-> ""]
         /\ UNCHANGED <<voiceBtn, console>>
    ELSE /\ console' = Append(console, <<"Speech recognition not supported">>)
         /\ voiceBtn' = [voiceBtn EXCEPT !.disabled = TRUE]
         /\ UNCHANGED recognition

\* initSpeechRecognition() (lines 28-68)
initSpeechRecognition ==
    IF hasRecognition
    THEN /\ recognition' = updateRecognitionLanguage(
                               [created |-> TRUE, lang |-> ""], currentLanguage)
         /\ UNCHANGED <<voiceBtn, console>>
    ELSE /\ console' = Append(console, <<"Speech recognition not supported">>)
         /\ voiceBtn' = [voiceBtn EXCEPT !.disabled = TRUE]
         /\ UNCHANGED recognition

\* the DOMContentLoaded handler (lines 278-294)
DOMContentLoaded ==
    /\ ~loaded
    /\ loaded' = TRUE
    /\ initSpeechRecognition
    /\ reqs' = fetch(loadDocuments(reqs, 0), "probe", <<>>, 0)
    /\ UNCHANGED <<events, env, chatVars, isRecording, voiceStatus, timers,
                       recState, startCalls, stopCalls, fired, chatMessages,
                       logsContainer, adminVars, captureVars, outVars, uncaught>>

ProbeData(kind, message) == [kind |-> kind, message |-> message]

\* What can answer GET /
ProbeResponses ==
    { ProbeData("reject", Undefined), ProbeData("unparsable", Undefined),
      ProbeData("json", Str(<<"College Voice Assistant API">>)) }

\* the promise chain on GET / (lines 286-293)
ProbeResponse ==
    \E i \in Pending("probe") : \E r \in ProbeResponses :
        /\ logsContainer' =
              IF r.kind = "reject"
              THEN logToSystem(logsContainer,
                       <<"Backend connection failed: ">> \o FailedToFetch, "error", i)
              ELSE IF r.kind = "unparsable"
              THEN logToSystem(logsContainer,
                       <<"Backend connection failed: ">> \o JsonError, "error", i)
              ELSE logToSystem(logsContainer,
                       <<"Backend connected: ">> \o r.message.v, "info", i)
        /\ reqs' = settle(reqs, i, r, "undefined")
        /\ UNCHANGED <<loaded, events, env, chatVars, voiceVars, chatMessages,
                       console, adminVars, captureVars, outVars, uncaught>>

-----------------------------------------------------------------------------
(* Voice input, capture variant (lines 455-505).  The script defines it as  *)
(* the alternative method and wires it to no control; its caller is the     *)
(* environment here.                                                        *)

\* startMediaRecording() (lines 456-480), resumed with the answer to
\* getUserMedia: a stream, or a rejection (permission denied, no device)
StartMediaRecording ==
    \E granted \in BOOLEAN :
        /\ UserEvent
        /\ IF granted
           THEN /\ mediaRecorder' = "recording"
                /\ audioChunks' = 0
                /\ isRecording' = TRUE
                /\ voiceBtn' = [voiceBtn EXCEPT !.listening = TRUE]
                /\ voiceStatus' = "flex"
                /\ UNCHANGED <<console, chatMessages>>
           ELSE /\ console' = Append(console, <<"Error accessing microphone:">>)
                /\ chatMessages' = addMessage(chatMessages, "system",
                       Str(<<"Microphone access denied. Please allow microphone permissions.">>),
                       0).chat
                /\ UNCHANGED <<mediaRecorder, audioChunks, isRecording, voiceBtn,
                               voiceStatus>>
        /\ UNCHANGED <<loaded, env, chatVars, recognition, timers, recState,
                       startCalls, stopCalls, fired, logsContainer, reqs,
                       adminVars, outVars, uncaught>>

\* sendAudioToBackend(audioBlob) up to its await (lines 482-490)
sendAudioToBackend(rs, audioBlob) == fetch(rs, "voice", [audio |-> audioBlob], 0)

\* the recorder is stopped: ondataavailable delivers the recorded data
\* (lines 462-464), then onstop packs it and sends it (lines 466-469)
MediaRecorderStop ==
    /\ mediaRecorder = "recording"
    /\ IssuingUserEvent
    /\ mediaRecorder' = "inactive"
    /\ audioChunks' = audioChunks + 1
    /\ reqs' = sendAudioToBackend(reqs, audioChunks + 1)
    /\ UNCHANGED <<loaded, env, chatVars, voiceVars, chatMessages, logsContainer,
                   console, adminVars, outVars, uncaught>>

VoiceData(kind, ok, text, answer, audio_url) ==
    [kind |-> kind, ok |-> ok, text |-> text, answer |-> answer,
     audio_url |-> audio_url]

\* What can answer POST /api/voice-query.  sendAudioToBackend never looks
\* at the status, so the body decides.
VoiceResponses ==
    { VoiceData("reject", FALSE, Undefined, Undefined, <<>>),
      VoiceData("unparsable", FALSE, Undefined, Undefined, <<>>),
      VoiceData("json", FALSE, Undefined, Undefined, <<>>),
      VoiceData("json", TRUE, Str(<<"h", "i">>), Str(<<"U+0D2E">>), <<>>),
      VoiceData("json", TRUE, Str(<<"h", "i">>), Str(<<"o", "k">>),
                <<"/audio/2.mp3">>) }

\* sendAudioToBackend's catch block (lines 501-504)
sendAudioCatch(chat, i, message) ==
    /\ console' = Append(console, <<"Error sending audio:">> \o message)
    /\ chatMessages' = addMessage(chat, "bot",
            Str(<<"Error processing voice input">>), i).chat
    /\ UNCHANGED audioPlays

\* sendAudioToBackend() resumed with the response to request i
\* (lines 492-499)
sendAudioResume(i, r) ==
    IF r.kind = "reject" THEN sendAudioCatch(chatMessages, i, FailedToFetch)
    ELSE IF r.kind = "unparsable" THEN sendAudioCatch(chatMessages, i, JsonError)
    ELSE LET user == addMessage(chatMessages, "user", r.text, i)
             bot  == addMessage(user.chat, "bot", r.answer, i)
         IN  IF user.threw THEN sendAudioCatch(user.chat, i, MatchError)
             ELSE IF bot.threw THEN sendAudioCatch(bot.chat, i, MatchError)
             ELSE /\ chatMessages' = bot.chat
                  /\ audioPlays' = IF r.audio_url # <<>>
                                   THEN Append(audioPlays, r.audio_url)
                                   ELSE audioPlays
                  /\ UNCHANGED console

VoiceResponse ==
    \E i \in Pending("voice") : \E r \in VoiceResponses :
        /\ sendAudioResume(i, r)
        /\ reqs' = settle(reqs, i, r, "undefined")
        /\ UNCHANGED <<loaded, events, env, chatVars, voiceVars, logsContainer,
                       adminVars, captureVars, ttsCalls, uncaught>>

-----------------------------------------------------------------------------
(* The program as wired: every handler registered by the script *)

Next ==
    \/ DOMContentLoaded
    \/ InputEdit
    \/ SendClick
    \/ EnterKey
    \/ ExampleClick
    \/ LangClick
    \/ VoiceClick
    \/ OnStart
    \/ OnResult
    \/ OnError
    \/ OnEnd
    \/ TimerFire
    \/ QueryResponse
    \/ ListResponse
    \/ FormEdit
    \/ FormSubmit
    \/ AddResponse
    \/ TabClick
    \/ AdminPanelClick
    \/ CloseModalClick
    \/ DocsLinkClick
    \/ FooterLinkClick
    \/ ProbeResponse

Spec == Init /\ [][Next]_vars

\* The conversation: typed, example and spoken queries and their answers
NextChat ==
    \/ DOMContentLoaded
    \/ InputEdit
    \/ SendClick
    \/ EnterKey
    \/ ExampleClick
    \/ LangClick
    \/ FooterLinkClick
    \/ QueryResponse

SpecChat == Init /\ [][NextChat]_vars

\* Voice input with the conversation around it
NextVoice ==
    \/ DOMContentLoaded
    \/ InputEdit
    \/ SendClick
    \/ EnterKey
    \/ ExampleClick
    \/ LangClick
    \/ VoiceClick
    \/ OnStart
    \/ OnResult
    \/ OnError
    \/ OnEnd
    \/ TimerFire

SpecVoice == Init /\ [][NextVoice]_vars

\* The browser ends every session it has started: an end event follows a
\* result, an error and a stop() (Web Speech API), so onend is not postponed
\* forever.
SpecVoiceFair == SpecVoice /\ WF_vars(OnEnd)

\* The admin panel
NextAdmin ==
    \/ DOMContentLoaded
    \/ ListResponse
    \/ FormEdit
    \/ FormSubmit
    \/ AddResponse
    \/ TabClick

\* (nothing the admin panel does reads the two capabilities)
InitAdmin == Init /\ hasTTS = TRUE /\ hasRecognition = TRUE

SpecAdmin == InitAdmin /\ [][NextAdmin]_vars

\* The four API operations, each with its caller and its response; the
\* capture variant is wired in
NextApi ==
    \/ DOMContentLoaded
    \/ ExampleClick
    \/ QueryResponse
    \/ TabClick
    \/ ListResponse
    \/ FormEdit
    \/ FormSubmit
    \/ AddResponse
    \/ StartMediaRecording
    \/ MediaRecorderStop
    \/ VoiceResponse

SpecApi == InitAdmin /\ [][NextApi]_vars

-----------------------------------------------------------------------------
(* Properties *)

Requests == 1..Len(reqs)

BotMessagesBy(i) ==
    {k \in 1..Len(chatMessages) :
        chatMessages[k].by = i /\ chatMessages[k].sender = "bot"}

UserVisibleBy(i) ==
    {k \in 1..Len(chatMessages) :
        chatMessages[k].by = i /\ chatMessages[k].sender \in {"bot", "system"}}

LogEntriesBy(i) == {k \in 1..Len(logsContainer) : logsContainer[k].by = i}

ListsBy(i) == {k \in Requests : reqs[k].op = "list" /\ reqs[k].by = i}

StartsWith(s, t) == Len(s) >= Len(t) /\ SubSeq(s, 1, Len(t)) = t

EndsWith(s, t) ==
    Len(s) >= Len(t) /\ SubSeq(s, Len(s) - Len(t) + 1, Len(s)) = t

Last(s) == s[Len(s)]

\* request i is answered in this step
Settles(i) == reqs[i].st = "pending" /\ reqs'[i].st = "settled"

\* C1: a query whose request fails (fetch rejects, or the status is not 2xx)
\* does not throw to its caller; while the request is pending nothing has been
\* appended for it, and once it has settled exactly one bot message and
\* exactly one system log entry have been appended for it.
QueryFailed(q) ==
    q.op = "query" /\ q.st = "settled" /\ q.resp.kind \in {"reject", "status"}

C1_FailedQueryOneBotOneLog ==
    \A i \in Requests :
        reqs[i].op = "query" =>
            /\ reqs[i].st = "pending" =>
                  BotMessagesBy(i) = {} /\ LogEntriesBy(i) = {}
            /\ QueryFailed(reqs[i]) =>
                  /\ reqs[i].ret # "rejected"
                  /\ Cardinality(BotMessagesBy(i)) = 1
                  /\ Cardinality(LogEntriesBy(i)) = 1

\* two queries have failed, one by transport and one by status
C1_Witness ==
    \E i, j \in Requests :
        /\ QueryFailed(reqs[i]) /\ reqs[i].resp.kind = "reject"
        /\ QueryFailed(reqs[j]) /\ reqs[j].resp.kind = "status"

\* C2 (as claimed): no voice-button click calls recognition.start() while a
\* session is already starting or started.
C2_NoStartWhileActive ==
    \A k \in 1..Len(startCalls) : startCalls[k].met = "idle"

\* C3 (as claimed): once the 500 ms timer of a recognition result has fired,
\* a query whose text is that result's transcript has been sent.
C3_TranscriptSubmitted ==
    \A k \in 1..Len(fired) :
        \E i \in Requests :
            reqs[i].op = "query" /\ reqs[i].body.text = trim(fired[k])

\* C4: a recognition error event logs the error code (console and a system
\* message) and leaves the input field, the timers and the requests alone;
\* the failed session schedules no auto-submit; it can only end, and it does
\* end, with the controller idle: isRecording false, indicator removed.
IdleControls ==
    ~isRecording /\ ~voiceBtn.listening /\ voiceStatus = "none"

FailedSession == recState.errored /\ recState.phase # "idle"

C4_ErrorStep ==
    [][ /\ (~recState.errored /\ recState'.errored) =>
              /\ Len(console') = Len(console) + 1
              /\ Len(chatMessages') = Len(chatMessages) + 1
              /\ Last(chatMessages').sender = "system"
              /\ \E code \in ErrorCodes :
                    /\ Last(console') = <<"Speech recognition error:", code>>
                    /\ Last(chatMessages').text = <<"Speech recognition error: ", code>>
              /\ UNCHANGED <<messageInput, timers, reqs, fired>>
        /\ FailedSession =>
              /\ Len(timers') <= Len(timers)
              /\ recState'.errored
              /\ recState'.phase \in {recState.phase, "idle"}
        /\ (recState'.errored /\ recState'.phase = "idle") => IdleControls'
      ]_vars

C4_ErrorReturnsToIdle ==
    /\ C4_ErrorStep
    /\ FailedSession ~> (recState.phase = "idle" /\ IdleControls)

\* a session that was listening has failed and ended
C4_Witness ==
    /\ recState.errored /\ recState.phase = "idle"
    /\ \E k \in 1..Len(chatMessages) :
          chatMessages[k].text = <<"Listening... Speak now!">>
    /\ Last(chatMessages).text = <<"Speech recognition error: ", "no-speech">>

\* C5 (as claimed): for each of the four API operations, a transport failure
\* or a non-2xx status leaves no exception uncaught and yields a user-facing
\* message and an error log entry carrying the original error text.
ApiOps == {"query", "list", "add", "voice"}

RequestFailed(q) ==
    /\ q.st = "settled"
    /\ \/ q.resp.kind \in {"reject", "status"}
       \/ q.op \in {"list", "voice"} /\ ~q.resp.ok

OriginalError(q) == IF q.resp.kind = "reject" THEN FailedToFetch ELSE HttpError

C5_FailuresNormalized ==
    \A i \in Requests :
        (reqs[i].op \in ApiOps /\ RequestFailed(reqs[i])) =>
            /\ reqs[i].ret # "rejected"
            /\ UserVisibleBy(i) # {}
            /\ \E k \in LogEntriesBy(i) :
                  /\ logsContainer[k].type = "error"
                  /\ EndsWith(logsContainer[k].text, OriginalError(reqs[i]))

\* C6: a submit event on a form whose English or Malayalam field is empty
\* after trimming issues no request at all (no add-document, no list refresh).
C6_EmptyRequiredFieldNoRequest ==
    [][ ( /\ Len(submitted') = Len(submitted) + 1
          /\ (trim(form.english) = <<>> \/ trim(form.malayalam) = <<>>) )
        => reqs' = reqs ]_vars

\* a form whose English field holds only white space has been submitted
C6_Witness ==
    \E k \in 1..Len(submitted) :
        /\ submitted[k].english # <<>> /\ trim(submitted[k].english) = <<>>
        /\ trim(submitted[k].malayalam) # <<>>

\* C7: an addDocument call answered 2xx with a JSON body returns true and has
\* issued exactly one listDocuments request, after its own; any other
\* addDocument call (pending or failed) has issued none.
AddSucceeded(q) == q.op = "add" /\ q.st = "settled" /\ q.resp.kind = "json"

C7_OneReloadPerSuccessfulAdd ==
    \A i \in Requests :
        reqs[i].op = "add" =>
            IF AddSucceeded(reqs[i])
            THEN /\ reqs[i].ret = "true"
                 /\ Cardinality(ListsBy(i)) = 1
                 /\ \A k \in ListsBy(i) : k > i
            ELSE /\ reqs[i].ret # "true"
                 /\ ListsBy(i) = {}

C7_Witness ==
    \E i \in Requests : AddSucceeded(reqs[i]) /\ reqs[i].resp.id = Undefined

\* C8: the step in which a valid submission settles clears the form when
\* addDocument succeeded; when it failed it leaves the three fields as they
\* are and appends a system message that reports the error.
C8_FormAfterSubmission ==
    [][ \A i \in Requests :
          (reqs[i].op = "add" /\ Settles(i)) =>
              /\ reqs'[i].ret \in {"true", "false"}
              /\ reqs'[i].ret = "true" => form' = EmptyForm
              /\ reqs'[i].ret = "false" =>
                    /\ form' = form
                    /\ Len(chatMessages') = Len(chatMessages) + 1
                    /\ Last(chatMessages').sender = "system"
                    /\ Last(chatMessages').by = i
                    /\ StartsWith(Last(chatMessages').text,
                                  <<"U+274C", " Error adding document: ">>)
      ]_vars

\* a submission has failed and the form still holds what was submitted
C8_Witness ==
    \E i \in Requests :
        /\ reqs[i].op = "add" /\ reqs[i].ret = "false"
        /\ submitted # <<>> /\ form = Last(submitted) /\ form # EmptyForm

\* C9 (as claimed): the step in which a listDocuments request fails
\* (transport failure, non-2xx status or unparsable body) appends a log entry
\* and leaves the rendered list empty.
ListFailed(r) == r.kind \in {"reject", "unparsable"} \/ ~r.ok

C9_FailedListRendersEmpty ==
    [][ \A i \in Requests :
          (reqs[i].op = "list" /\ Settles(i) /\ ListFailed(reqs'[i].resp)) =>
              /\ Len(logsContainer') = Len(logsContainer) + 1
              /\ documentsList' = <<>>
      ]_vars

\* C10: whenever the recognition object exists its locale is the image of
\* the current language (ml -> ml-IN, manglish -> en-IN, else en-US), and
\* every start() ran with the locale of the language then selected.
LocaleFor(language) ==
    IF language = "ml" THEN "ml-IN"
    ELSE IF language = "manglish" THEN "en-IN"
    ELSE "en-US"

C10_LocaleFollowsLanguage ==
    /\ recognition.created => recognition.lang = LocaleFor(currentLanguage)
    /\ \A k \in 1..Len(startCalls) :
          startCalls[k].lang = LocaleFor(startCalls[k].language)

\* a session was started under a language chosen by the user
C10_Witness ==
    /\ recognition.created
    /\ \E k \in 1..Len(startCalls) : startCalls[k].language = "manglish"
    /\ currentLanguage = "ml"

\* C11: whenever no recognition session and no capture session is running
\* (before the first one, or after stop(), an error or the end of one),
\* isRecording is false and the listening indicator is off, so the next
\* click on the voice button starts a session.
C11_ReleasedAfterSession ==
    (recState.phase = "idle" /\ mediaRecorder # "recording") => IdleControls

\* C12: the conversation log is append-only and order-preserving: every step
\* of every handler or network callback leaves the messages already rendered
\* where they were, unchanged, and puts what it adds after them (so the
\* rendered sequence is the sequence of addMessage calls in call order).
C12_LogAppendOnly ==
    [][ /\ Len(chatMessages') >= Len(chatMessages)
        /\ SubSeq(chatMessages', 1, Len(chatMessages)) = chatMessages
      ]_vars

\* messages of a click handler, of a submission and of a network callback
\* are in the log together, a user message following an earlier bot message
C12_Witness ==
    /\ \E k \in 1..Len(chatMessages) : chatMessages[k].sender = "system"
    /\ \E j, k \in 1..Len(chatMessages) :
          /\ j < k
          /\ chatMessages[j].sender = "bot" /\ chatMessages[k].sender = "user"

\* the response that settles query i in this step is a success: a 2xx
\* status and a JSON body whose answer is a string
QuerySucceeds(i) ==
    /\ reqs[i].op = "query"
    /\ Settles(i)
    /\ reqs'[i].resp.kind = "json"
    /\ reqs'[i].resp.answer.t = "string"

AnsweredQuery(i) ==
    /\ reqs[i].op = "query" /\ reqs[i].st = "settled"
    /\ reqs[i].resp.kind = "json" /\ reqs[i].resp.answer.t = "string"

Spoken(r) == [text |-> r.answer.v, lang |-> LocaleFor(r.language)]

\* C13 as stated: on every successful query response, with an audio_url the
\* served audio is played and nothing is spoken; without one, speech synthesis
\* is invoked exactly once with the answer and the locale of the response
\* language (ml -> ml-IN, manglish -> en-IN, otherwise en-US).
C13_AudioElseSpeech ==
    [][ \A i \in Requests : QuerySucceeds(i) =>
          LET r == reqs'[i].resp IN
          IF r.audio_url # <<>>
          THEN /\ audioPlays' = Append(audioPlays, r.audio_url)
               /\ ttsCalls' = ttsCalls
          ELSE /\ ttsCalls' = Append(ttsCalls, Spoken(r))
               /\ audioPlays' = audioPlays
      ]_vars

\* C13 amended: the same, with speech synthesis invoked only where the
\* browser has speechSynthesis; without it a response that has no audio_url
\* is neither played nor spoken.
C13_AudioElseSpeechIfSupported ==
    [][ \A i \in Requests : QuerySucceeds(i) =>
          LET r == reqs'[i].resp IN
          IF r.audio_url # <<>>
          THEN /\ audioPlays' = Append(audioPlays, r.audio_url)
               /\ ttsCalls' = ttsCalls
          ELSE /\ ttsCalls' = IF hasTTS THEN Append(ttsCalls, Spoken(r))
                              ELSE ttsCalls
               /\ audioPlays' = audioPlays
      ]_vars

\* one answer was played from its audio_url and a manglish answer without
\* audio_url was spoken
C13_Witness ==
    /\ audioPlays # <<>>
    /\ \E k \in 1..Len(ttsCalls) : ttsCalls[k].lang = "en-IN"
    /\ \E i \in Requests :
          /\ AnsweredQuery(i)
          /\ reqs[i].resp.language = "manglish" /\ reqs[i].resp.audio_url = <<>>

\* t is s without its leading and trailing whitespace
IsTrimOf(t, s) ==
    /\ \E i, j \in 0..Len(s) :
          /\ i + j <= Len(s)
          /\ t = SubSeq(s, i + 1, Len(s) - j)
          /\ \A k \in 1..i : s[k] \in Whitespace
          /\ \A k \in (Len(s) - j + 1)..Len(s) : s[k] \in Whitespace
    /\ t # <<>> => (t[1] \notin Whitespace /\ t[Len(t)] \notin Whitespace)

\* a request is issued in this step, and it is a query
QueryIssued == Len(reqs') = Len(reqs) + 1 /\ Last(reqs').op = "query"

\* C14: every /api/query request is issued by a sendMessage call; its body
\* carries the trimmed text of the input of that call and a language field
\* that is null when the language selected at that moment is auto, and is
\* that language (ml or manglish) otherwise.
C14_QueryBody ==
    [][ QueryIssued =>
          /\ Len(sendCalls') = Len(sendCalls) + 1
          /\ IsTrimOf(Last(reqs').body.text, Last(sendCalls'))
          /\ Last(reqs').body.language =
                (IF currentLanguage = "auto" THEN "null" ELSE currentLanguage)
          /\ Last(reqs').body.language \in {"null", "ml", "manglish"}
          /\ currentLanguage' = currentLanguage
      ]_vars

\* a padded input was submitted under a selected language
C14_Witness ==
    /\ \E i \in Requests :
          /\ reqs[i].op = "query" /\ reqs[i].body.language = "ml"
          /\ reqs[i].body.text = <<"U+0D2E">>
    /\ \E k \in 1..Len(sendCalls) : sendCalls[k] = <<" ", "U+0D2E", " ">>

\* the chunks of the model's alphabet that are characters of the Malayalam
\* block U+0D00..U+0D7F ("U+0D80" is the code point after it)
MalayalamChunks == {"U+0D2E"}

HasMalayalam(text) == \E k \in 1..Len(text) : text[k] \in MalayalamChunks

\* C15: a rendered message carries the class malayalam-text if and only if
\* its text contains a character of the block U+0D00..U+0D7F; a message
\* without such a character (pure ASCII, or only characters past the block)
\* never carries it.
C15_MalayalamMarker ==
    \A k \in 1..Len(chatMessages) :
        chatMessages[k].malayalam <=> HasMalayalam(chatMessages[k].text)

\* the log holds a marked message, a pure-ASCII one, and one whose only
\* non-ASCII character is U+0D80
C15_Witness ==
    /\ \E k \in 1..Len(chatMessages) : chatMessages[k].malayalam
    /\ \E k \in 1..Len(chatMessages) : chatMessages[k].text = <<"q", "?">>
    /\ \E k \in 1..Len(chatMessages) : chatMessages[k].text = <<"U+0D80">>

\* sendMessage is called in this step while the input field is empty or
\* holds only whitespace
EmptySend ==
    /\ Len(sendCalls') = Len(sendCalls) + 1
    /\ \A k \in 1..Len(Last(sendCalls')) : Last(sendCalls')[k] \in Whitespace

\* C16: a sendMessage call on an empty or whitespace-only input (send
\* button, Enter key, example button, recognition timer) issues no request,
\* appends no message and no log entry, writes nothing to the console, speaks
\* and plays nothing, and leaves the language and the recording state as they
\* were; the input field keeps what it held.
C16_EmptySendDoesNothing ==
    [][ EmptySend =>
          /\ UNCHANGED <<reqs, chatMessages, logsContainer, console, outVars>>
          /\ UNCHANGED <<currentLanguage, placeholder, isRecording, recognition,
                         recState, voiceBtn, voiceStatus>>
          /\ messageInput' = Last(sendCalls')
      ]_vars

\* an empty field was submitted, and the recognition timer fired on a field
\* the user had overwritten with a blank: no query was ever issued
C16_Witness ==
    /\ \E k \in 1..Len(sendCalls) : sendCalls[k] = <<>>
    /\ \E k \in 1..Len(sendCalls) : sendCalls[k] = <<" ">>
    /\ fired # <<>>
    /\ \A i \in Requests : reqs[i].op # "query"

UserMessagesBy(i) ==
    {k \in 1..Len(chatMessages) :
        chatMessages[k].by = i /\ chatMessages[k].sender = "user"}

\* C17: every submitted query has exactly one user message; it has no bot
\* message while its request is pending and exactly one once the request has
\* settled, whatever the answer and whatever else is in flight; the user
\* message stands before the bot message.
C17_OneUserThenOneBot ==
    \A i \in Requests :
        reqs[i].op = "query" =>
            /\ Cardinality(UserMessagesBy(i)) = 1
            /\ Cardinality(BotMessagesBy(i)) =
                  (IF reqs[i].st = "settled" THEN 1 ELSE 0)
            /\ \A u \in UserMessagesBy(i) : \A b \in BotMessagesBy(i) : u < b

\* every request of the admin panel has been answered, and every list
\* request with a document list
AllListsAnswered ==
    \A i \in Requests :
        /\ reqs[i].op \in {"list", "add"} => reqs[i].st = "settled"
        /\ reqs[i].op = "list" => reqs[i].resp.kind = "json"

\* C18: the displayed list is at every moment what one response rendered (or
\* empty before the first), and once every request has been answered after a
\* successful add, the list shown is the response to a list request issued
\* after that add (requests are numbered in issue order).
C18_ListFreshAfterAdd ==
    /\ listedBy = 0 => documentsList = <<>>
    /\ listedBy # 0 =>
          /\ reqs[listedBy].op = "list" /\ reqs[listedBy].st = "settled"
          /\ documentsList = renderDocuments(reqs[listedBy].resp.documents)
    /\ AllListsAnswered =>
          \A a \in Requests : AddSucceeded(reqs[a]) => listedBy > a

====
